---- MODULE Spec2Model ----
(***************************************************************************)
(* Model of the env-file ingestion of goloop/env: readParseStore           *)
(* (tools.go), with the line classifier isEmpty and the expression parser  *)
(* parseExpression it calls.  A string is a sequence of one-character      *)
(* strings; the environment and sync.Map are functions with a growing      *)
(* domain.  The parse goroutines run the same closure and have no          *)
(* identity, so their states are kept as a bag.  A second specification,   *)
(* CallSpec, runs one call of ParallelTasks (env.go), parseExpression,     *)
(* isEmpty, splitN or the goroutine body on an input from a bounded set.   *)
(* LoopSpec runs splitN one pass of its loop at a time, SaveSpec runs Save *)
(* (env.go, encode.go) and then Load on the file it wrote, FailSpec runs   *)
(* readParseStore on files with malformed lines, and OrderSpec runs the    *)
(* apply phase of the slice-collecting readParseStore (unnamed/part_008).  *)
(***************************************************************************)
EXTENDS Integers, Sequences, FiniteSets, Bags, TLC

VARIABLES
    expand,         \* argument of readParseStore
    update,         \* argument of readParseStore
    forced,         \* argument of readParseStore
    parallelTasks,  \* package variable: number of parse goroutines
    openable,       \* whether os.OpenFile of the env-file succeeds
    env0,           \* the environment when readParseStore is called
    env,            \* the process environment
    file,           \* the lines scanner.Scan has produced so far
    scanErr,        \* scanner.Err() is non-nil
    number,         \* "number": 0-based number of the next line
    closed,         \* the lines channel is closed
    pc,             \* position of the calling goroutine
    tasks,          \* the parse goroutines: a bag of [pc, line, err]
    outputs,        \* sync.Map: line number -> output
    cancelled,      \* ctx is cancelled
    egErr,          \* the error the errgroup keeps (first non-nil return)
    i,              \* index of the apply loop
    ret,            \* what readParseStore returned
    call,           \* the call under way: [fn, args, done, out]
    disk,           \* the lines of a file on disk (the one Save has written)
    frame           \* the local variables of the splitN call under way

vars == <<expand, update, forced, parallelTasks, openable, env0, env, file,
          scanErr, number, closed, pc, tasks, outputs, cancelled, egErr, i,
          ret, call, disk, frame>>

----------------------------------------------------------------------------
(* Bounds of the model.                                                    *)

\* Longest env-file (in lines) the scanner reads.
MaxLines == 3

\* Largest pool size tried (stands for 2 * runtime.NumCPU()).
MaxTasks == 2

\* The minimum pool size ParallelTasks clamps to.
MinTasks == 2

\* Longest value (the text after the = sign) parseExpression is called on.
MaxValueLen == 4

\* Longest line isEmpty and the body of a parse goroutine are run on.
MaxLineLen == 3

\* Longest string (in characters) splitN is called on.
MaxStrLen == 5

\* Largest limit n splitN is called with.
MaxLimit == 3

\* Longest string value of a field Save is called on.
MaxFieldLen == 3

\* Longest ASCII string splitN is run on one iteration at a time.
MaxLoopLen == 3

\* The number of pieces of r the model keeps.
MaxPieces == 6

----------------------------------------------------------------------------
(* Characters and strings.                                                 *)

\* The byte 0, which no environment value may contain.
NUL == "NUL"

Letters == {"A", "B", "C", "K", "a", "b", "c", "d", "e", "o", "p", "r", "t",
            "x", "z"}

Digits == {"0", "1", "5", "7"}

\* The vertical tab: white space for unicode.IsSpace, not for the class \s
\* of the regular expressions.
VT == "VT"

\* unicode.IsSpace on the characters of the model.
IsSpace(c) == c \in {" ", "\t", VT}

\* The class \s of regexp on the characters of the model.
RgxSpace(c) == c \in {" ", "\t"}

IsKeyStart(c) == c \in Letters \cup {"_"}

IsKeyChar(c) == c \in Letters \cup Digits \cup {"_"}

Contains(s, c) == \E k \in 1..Len(s) : s[k] = c

Count(s, c) == Cardinality({k \in 1..Len(s) : s[k] = c})

\* s[from:] with 1-based "from".
Tail_(s, from) == SubSeq(s, from, Len(s))

HasPrefixAt(s, k, p) ==
    /\ k + Len(p) - 1 <= Len(s)
    /\ \A j \in 1..Len(p) : s[k + j - 1] = p[j]

\* \s*: index of the first character at or after k that is not in \s
\* (Len(s) + 1 when there is none).
RECURSIVE SkipSpaces(_, _)
SkipSpaces(s, k) ==
    IF k <= Len(s) /\ RgxSpace(s[k]) THEN SkipSpaces(s, k + 1) ELSE k

\* Index of the first character at or after k that is not a key character.
RECURSIVE SkipKeyChars(_, _)
SkipKeyChars(s, k) ==
    IF k <= Len(s) /\ IsKeyChar(s[k]) THEN SkipKeyChars(s, k + 1) ELSE k

\* Index of the first c in s at or after k, 0 when there is none.
RECURSIVE IndexFrom(_, _, _)
IndexFrom(s, c, k) ==
    IF k > Len(s) THEN 0
    ELSE IF s[k] = c THEN k
    ELSE IndexFrom(s, c, k + 1)

\* strings.TrimSpace
RECURSIVE TrimRight(_)
TrimRight(s) ==
    IF Len(s) > 0 /\ IsSpace(s[Len(s)]) THEN TrimRight(SubSeq(s, 1, Len(s) - 1))
    ELSE s

RECURSIVE TrimLeft(_)
TrimLeft(s) ==
    IF Len(s) > 0 /\ IsSpace(s[1]) THEN TrimLeft(Tail_(s, 2)) ELSE s

TrimSpace(s) == TrimRight(TrimLeft(s))

\* strings.Replace(s, old, new, -1) for a non-empty old.
RECURSIVE ReplaceAll(_, _, _)
ReplaceAll(s, old, new) ==
    IF Len(s) = 0 THEN <<>>
    ELSE IF HasPrefixAt(s, 1, old)
         THEN new \o ReplaceAll(Tail_(s, Len(old) + 1), old, new)
         ELSE <<s[1]>> \o ReplaceAll(Tail_(s, 2), old, new)

\* strings.Split(s, c)[0]: the text before the first c.
FirstChunk(s, c) ==
    IF IndexFrom(s, c, 1) = 0 THEN s ELSE SubSeq(s, 1, IndexFrom(s, c, 1) - 1)

----------------------------------------------------------------------------
(* isEmpty: the line classifier.                                           *)

\* emptyLineRgx: the line is only spaces, or spaces followed by a # comment.
emptyLineRgx(str) ==
    \/ SkipSpaces(str, 1) > Len(str)
    \/ str[SkipSpaces(str, 1)] = "#"

\* A faulty variant of isEmpty: only the first character is looked at.
isEmptyFirstOnly(str) == IF Len(str) = 0 THEN TRUE ELSE str[1] = "#"

isEmpty(str) ==
    IF Len(str) = 0 THEN TRUE
    ELSE IF str[1] = "#" THEN TRUE
    ELSE IF ~IsSpace(str[1]) THEN FALSE
    ELSE emptyLineRgx(str)

----------------------------------------------------------------------------
(* parseExpression: the expression parser.                                 *)

Export == <<"e", "x", "p", "o", "r", "t">>

\* The random marker that stands for an escaped quote while the comment is
\* removed: "<::" + 16 hex digits + "::>", here its first and last part.
Marker == <<"<::", "::>">>

\* The backquote character (a token: the character itself cannot be written
\* in a string of this language).
BackQuote == "BQ"

Quotes == {"'", "\"", BackQuote}

\* Position where the key starts under keyRgx, after the optional spaces
\* and the optional export followed by spaces.
KeyStart(exp) ==
    LET a == SkipSpaces(exp, 1)
    IN  IF /\ HasPrefixAt(exp, a, Export)
           /\ a + Len(Export) <= Len(exp)
           /\ RgxSpace(exp[a + Len(Export)])
        THEN SkipSpaces(exp, a + Len(Export))
        ELSE a

\* A faulty variant of keyRgx: the key may start with a digit.
keyRgxAnyStart(exp) ==
    LET a == KeyStart(exp)
        b == SkipKeyChars(exp, a)
    IN  IF /\ a < b
           /\ b <= Len(exp)
           /\ exp[b] = "="
        THEN <<SubSeq(exp, a, b - 1)>>
        ELSE <<>>

\* keyRgx.FindStringSubmatch(exp): <<key>> when the expression matches,
\* <<>> otherwise.
keyRgx(exp) ==
    LET a == KeyStart(exp)
        b == SkipKeyChars(exp, a)
    IN  IF /\ a <= Len(exp)
           /\ IsKeyStart(exp[a])
           /\ b <= Len(exp)
           /\ exp[b] = "="
        THEN <<SubSeq(exp, a, b - 1)>>
        ELSE <<>>

\* valueRgx: an = sign followed by a character that is not a space.
valueRgx(value) ==
    /\ Len(value) >= 2
    /\ value[1] = "="
    /\ ~RgxSpace(value[2])

\* removeInlineComment(str, q), byte by byte from position k with the
\* "inside" flag and the result built so far.
RECURSIVE RemoveFrom(_, _, _, _, _)
RemoveFrom(str, q, k, inside, result) ==
    IF k > Len(str) THEN result
    ELSE IF str[k] = q
         THEN RemoveFrom(str, q, k + 1,
                         IF inside THEN ~(k > 1 /\ str[k - 1] # "\\") ELSE TRUE,
                         Append(result, str[k]))
    ELSE IF str[k] = "#" /\ ~inside THEN TrimSpace(result)
    ELSE IF str[k] = "\\" /\ inside /\ k + 1 <= Len(str) /\ str[k + 1] = q
         THEN RemoveFrom(str, q, k + 2, inside, result \o <<"\\", q>>)
    ELSE RemoveFrom(str, q, k + 1, inside, Append(result, str[k]))

\* A faulty variant of removeInlineComment: the first # ends the value, in
\* quotes or not.
removeInlineCommentAnyHash(str, q) ==
    IF ~Contains(str, "#") THEN str ELSE TrimSpace(FirstChunk(str, "#"))

removeInlineComment(str, q) ==
    IF ~Contains(str, "#") THEN str ELSE RemoveFrom(str, q, 1, FALSE, <<>>)

NoErr == [kind |-> "nil", text |-> <<>>]

MissingName(exp) == [kind |-> "missing variable name", text |-> exp]

IncorrectValue(value) == [kind |-> "incorrect value", text |-> value]

MissingEq(exp) == [kind |-> "missing = sign", text |-> exp]

\* The run-time panic of value[1 : len(value)-1] on a value shorter than 2.
SliceBounds == [kind |-> "panic: slice bounds out of range", text |-> <<>>]

\* A faulty variant of ParseQuoted: the quotes are not counted.
ParseQuotedUncounted(key, value, quote) ==
    [key |-> key,
     value |-> ReplaceAll(
                  SubSeq(removeInlineComment(
                             ReplaceAll(value, <<"\\", quote>>, Marker), quote),
                         2,
                         Len(removeInlineComment(
                                 ReplaceAll(value, <<"\\", quote>>, Marker),
                                 quote)) - 1),
                  Marker, <<quote>>),
     err |-> NoErr]

\* The quoted branch of parseExpression, on the trimmed value.
ParseQuoted(key, value, quote) ==
    LET masked == ReplaceAll(value, <<"\\", quote>>, Marker)
        clean == removeInlineComment(masked, quote)
    IN  IF Count(clean, quote) % 2 # 0
        THEN [key |-> key, value |-> clean, err |-> IncorrectValue(clean)]
        ELSE IF Len(clean) < 2
        THEN [key |-> key, value |-> clean, err |-> SliceBounds]
        ELSE [key |-> key,
              value |-> ReplaceAll(SubSeq(clean, 2, Len(clean) - 1),
                                   Marker, <<quote>>),
              err |-> NoErr]

\* A faulty variant of ParseUnquotedComment: the text before the # is not
\* split at the space.
ParseUnquotedKeepSpaces(key, value) ==
    [key |-> key,
     value |-> TrimSpace(FirstChunk(value, "#")),
     err |-> NoErr]

\* The unquoted branch with a # in the value.
ParseUnquotedComment(key, value) ==
    [key |-> key,
     value |-> TrimSpace(FirstChunk(FirstChunk(value, "#"), " ")),
     err |-> NoErr]

parseExpression(exp) ==
    LET tmp == keyRgx(exp)
        pos == IndexFrom(exp, "=", 1)
    IN  IF Len(tmp) < 1
        THEN [key |-> <<>>, value |-> <<>>, err |-> MissingName(exp)]
        ELSE IF pos = 0
        THEN [key |-> tmp[1], value |-> <<>>, err |-> MissingEq(exp)]
        ELSE IF ~valueRgx(Tail_(exp, pos))
        THEN [key |-> tmp[1], value |-> Tail_(exp, pos),
              err |-> IncorrectValue(Tail_(exp, pos))]
        ELSE LET value == TrimSpace(Tail_(exp, pos + 1))
             IN  IF Len(value) > 0 /\ value[1] \in Quotes
                 THEN ParseQuoted(tmp[1], value, value[1])
                 ELSE IF Contains(value, "#")
                 THEN ParseUnquotedComment(tmp[1], value)
                 ELSE [key |-> tmp[1], value |-> value, err |-> NoErr]

----------------------------------------------------------------------------
(* The environment: os.LookupEnv, os.Getenv, os.Setenv, os.ExpandEnv.      *)

EmptyEnv == [k \in {} |-> <<>>]

LookupEnv(e, key) == key \in DOMAIN e

Getenv(e, key) == IF key \in DOMAIN e THEN e[key] ELSE <<>>

\* os.Setenv returns EINVAL for an empty key, a key with = or the byte 0,
\* and a value with the byte 0.
SetenvFails(key, value) ==
    \/ Len(key) = 0
    \/ Contains(key, "=")
    \/ Contains(key, NUL)
    \/ Contains(value, NUL)

Setenv(e, key, value) ==
    [k \in DOMAIN e \cup {key} |-> IF k = key THEN value ELSE e[k]]

isShellSpecialVar(c) == c \in {"*", "#", "$", "@", "!", "?", "-"} \cup Digits

\* The name that follows a $ and the number of characters it takes.
getShellName(s) ==
    IF s[1] = "{"
    THEN IF Len(s) > 2 /\ isShellSpecialVar(s[2]) /\ s[3] = "}"
         THEN [name |-> <<s[2]>>, w |-> 3]
         ELSE LET c == IndexFrom(s, "}", 2)
              IN  IF c = 0 THEN [name |-> <<>>, w |-> 1]
                  ELSE IF c = 2 THEN [name |-> <<>>, w |-> 2]
                  ELSE [name |-> SubSeq(s, 2, c - 1), w |-> c]
    ELSE IF isShellSpecialVar(s[1]) THEN [name |-> <<s[1]>>, w |-> 1]
    ELSE [name |-> SubSeq(s, 1, SkipKeyChars(s, 1) - 1),
          w |-> SkipKeyChars(s, 1) - 1]

RECURSIVE ExpandFrom(_, _, _)
ExpandFrom(s, j, e) ==
    IF j > Len(s) THEN <<>>
    ELSE IF s[j] = "$" /\ j + 1 <= Len(s)
    THEN LET g == getShellName(Tail_(s, j + 1))
         IN  (IF Len(g.name) = 0 /\ g.w > 0 THEN <<>>
              ELSE IF Len(g.name) = 0 THEN <<"$">>
              ELSE Getenv(e, g.name))
             \o ExpandFrom(s, j + g.w + 1, e)
    ELSE <<s[j]>> \o ExpandFrom(s, j + 1, e)

ExpandEnv(s, e) == ExpandFrom(s, 1, e)

----------------------------------------------------------------------------
(* readParseStore.                                                         *)

\* The lines an env-file of the model is made of.
EnvLines ==
    { <<"A", "=", "a">>,
      <<"B", "=", "$", "{", "A", "}", "$", "A">>,
      <<"A", "=", "c">>,
      <<"1", "A", "=", "5">>,
      <<"#", "x">>,
      <<"B", "=", NUL>> }

\* The environments readParseStore is called in.
InitialEnvs ==
    { EmptyEnv,
      Setenv(EmptyEnv, <<"A">>, <<>>) }

Pending == [kind |-> "pending", text |-> <<>>]

OpenErr == [kind |-> "open", text |-> <<>>]

ReadErr == [kind |-> "read", text |-> <<>>]

SetenvErr == [kind |-> "setenv: invalid argument", text |-> <<>>]

Canceled == [kind |-> "context canceled", text |-> <<>>]

ParseErrKinds == {"missing variable name", "incorrect value", "missing = sign"}

\* A faulty variant of Expanded: the expand argument is not consulted.
ExpandedAlways(expand_, value) == Contains(value, "$")

\* expanded := false; if expand { expanded = strings.Contains(value, "$") }
Expanded(expand_, value) == IF expand_ THEN Contains(value, "$") ELSE FALSE

\* A faulty variant of IgnoreError: a malformed line always aborts.
IgnoreErrorNever(forced_) == FALSE

\* if err != nil { if forced { continue } else { cancel(); return err } }
IgnoreError(forced_) == forced_

\* A faulty variant of Store: the output is appended, keyed by its order of arrival.
StoreByArrival(outs, n, o) ==
    [k \in DOMAIN outs \cup {Cardinality(DOMAIN outs)} |->
        IF k = Cardinality(DOMAIN outs) THEN o ELSE outs[k]]

\* A faulty variant of Store: every output is stored under the key 0.
StoreUnderZero(outs, n, o) ==
    [k \in DOMAIN outs \cup {0} |-> IF k = 0 THEN o ELSE outs[k]]

\* outputs.Store(line.number, output{...})
Store(outs, n, o) ==
    [k \in DOMAIN outs \cup {n} |-> IF k = n THEN o ELSE outs[k]]

\* A faulty variant of WaitFailed: the error of eg.Wait() is dropped.
WaitNeverFailed(err) == FALSE

\* err != nil && !errors.Is(err, context.Canceled)
WaitFailed(err) == err # NoErr /\ err # Canceled

\* A faulty variant of ReadFailed: scanner.Err() is not checked.
ReadNeverFailed(scanErr_) == FALSE

\* if err := scanner.Err(); err != nil
ReadFailed(scanErr_) == scanErr_

\* A faulty variant of ShouldSet: a key with an empty value counts as absent.
ShouldSetIfEmpty(update_, e, key) == update_ \/ Len(Getenv(e, key)) = 0

\* A faulty variant of ShouldSet: every entry is written.
ShouldSetAlways(update_, e, key) == TRUE

\* A faulty variant of ShouldSet: update is not consulted.
ShouldSetIfAbsent(update_, e, key) == ~LookupEnv(e, key)

\* if _, ok := os.LookupEnv(item.key); update || !ok
ShouldSet(update_, e, key) == update_ \/ ~LookupEnv(e, key)

\* A faulty variant of ItemValue: the value is expanded in the environment the call
\* started in.
ItemValueEarly(expand_, item, e) ==
    IF expand_ /\ item.expanded THEN ExpandEnv(item.value, env0) ELSE item.value

\* if expand && item.expanded { item.value = os.ExpandEnv(item.value) }
ItemValue(expand_, item, e) ==
    IF expand_ /\ item.expanded THEN ExpandEnv(item.value, e) ELSE item.value

\* A faulty variant of SetenvReturns: the error of os.Setenv is dropped.
SetenvNeverReturns(key, value) == FALSE

\* err := os.Setenv(item.key, item.value); if err != nil { return err }
SetenvReturns(key, value) == SetenvFails(key, value)

\* A parse goroutine: where it is, the number of the line it holds and the
\* parse error it is about to return.
Task(pc_, line_, err_) == [pc |-> pc_, line |-> line_, err |-> err_]

NewTask == Task("new", 0, NoErr)

RangeTask == Task("range", 0, NoErr)

ExitTask == Task("exit", 0, NoErr)

\* The bag b with one goroutine moved from state t to state u.
Move(b, t, u) == (b (-) SetToBag({t})) (+) SetToBag({u})

\* The local variables of splitN when it is entered: i, level, host, char,
\* tmp and r with their zero values.
Locals ==
    [i |-> 0, level |-> 0, host |-> NUL, char |-> NUL, tmp |-> <<>>,
     r |-> <<>>]

\* A call of a function of the package that has not returned yet.
Call(fn_, args_) == [fn |-> fn_, args |-> args_, done |-> FALSE, out |-> <<>>]

Init ==
    /\ expand \in BOOLEAN
    /\ update \in BOOLEAN
    /\ forced \in BOOLEAN
    /\ parallelTasks \in MinTasks..MaxTasks
    /\ openable \in BOOLEAN
    /\ env0 \in InitialEnvs
    /\ env = env0
    /\ file = <<>>
    /\ scanErr = FALSE
    /\ number = 0
    /\ closed = FALSE
    /\ pc = "open"
    /\ tasks = [t \in {NewTask} |-> parallelTasks]
    /\ outputs = [k \in {} |-> 0]
    /\ cancelled = FALSE
    /\ egErr = NoErr
    /\ i = 0
    /\ ret = Pending
    /\ call = Call("readParseStore", <<>>)
    /\ disk = <<>>
    /\ frame = Locals

\* os.OpenFile; on success the parse goroutines are started.
OpenFile ==
    /\ pc = "open"
    /\ IF openable
       THEN /\ pc' = "scan"
            /\ tasks' = [t \in {RangeTask} |-> parallelTasks]
            /\ ret' = ret
       ELSE /\ pc' = "done"
            /\ ret' = OpenErr
            /\ tasks' = tasks
    /\ UNCHANGED <<call, disk, frame, expand, update, forced, parallelTasks,
                   openable, env0, env,
                   file, scanErr, number, closed, outputs, cancelled, egErr,
                   i>>

\* scanner.Scan() returns true with the next line of the file.
ScanLine ==
    /\ pc = "scan"
    /\ Len(file) < MaxLines
    /\ \E text \in EnvLines : file' = Append(file, text)
    /\ pc' = "send"
    /\ UNCHANGED <<call, disk, frame, expand, update, forced, parallelTasks,
                   openable, env0, env,
                   scanErr, number, closed, tasks, outputs, cancelled, egErr,
                   i, ret>>

\* scanner.Scan() returns false, at the end of the file or because reading
\* failed; then close(lines) and the check of scanner.Err().
ScanEnd ==
    /\ pc = "scan"
    /\ \E failed \in BOOLEAN :
          /\ scanErr' = failed
          /\ closed' = TRUE
          /\ IF ReadFailed(failed)
             THEN /\ cancelled' = TRUE
                  /\ ret' = ReadErr
                  /\ pc' = "done"
             ELSE /\ pc' = "wait"
                  /\ UNCHANGED <<cancelled, ret>>
    /\ UNCHANGED <<call, disk, frame, expand, update, forced, parallelTasks,
                   openable, env0, env,
                   file, number, tasks, outputs, egErr, i>>

\* lines <- line{...} meets "for line := range lines" of a goroutine;
\* then number++.
Receive ==
    /\ pc = "send"
    /\ BagIn(RangeTask, tasks)
    /\ tasks' = Move(tasks, RangeTask, Task("parse", number, NoErr))
    /\ number' = number + 1
    /\ pc' = "scan"
    /\ UNCHANGED <<call, disk, frame, expand, update, forced, parallelTasks,
                   openable, env0, env,
                   file, scanErr, closed, outputs, cancelled, egErr, i, ret>>

\* The body of the range loop for the line text held by goroutine t, r
\* being what parseExpression returns for it.
Body(t, text, r) ==
    IF isEmpty(text)
    THEN /\ tasks' = Move(tasks, t, RangeTask)
         /\ UNCHANGED <<outputs, cancelled>>
    ELSE IF r.err # NoErr
    THEN IF IgnoreError(forced)
         THEN /\ tasks' = Move(tasks, t, RangeTask)
              /\ UNCHANGED <<outputs, cancelled>>
         ELSE /\ cancelled' = TRUE
              /\ tasks' = Move(tasks, t, Task("return", 0, r.err))
              /\ UNCHANGED outputs
    ELSE /\ outputs' = Store(outputs, t.line,
                             [expanded |-> Expanded(expand, r.value),
                              value |-> r.value,
                              line |-> t.line,
                              key |-> r.key])
         /\ tasks' = Move(tasks, t, RangeTask)
         /\ UNCHANGED cancelled

\* Goroutine t runs the body of its range loop on the line it holds.
Parse(t) ==
    /\ t.pc = "parse"
    /\ BagIn(t, tasks)
    /\ Body(t, file[t.line + 1], parseExpression(file[t.line + 1]))
    /\ UNCHANGED <<call, disk, frame, expand, update, forced, parallelTasks,
                   openable, env0, env,
                   file, scanErr, number, closed, pc, egErr, i, ret>>

\* A faulty variant of errOnce: the last error returned is kept.
errLast(kept, err) == err

\* g.errOnce.Do(func() { g.err = err }): the first error returned is kept.
errOnce(kept, err) == IF kept = NoErr THEN err ELSE kept

\* Goroutine t returns its parse error: the errgroup keeps the first one.
ReturnErr(t) ==
    /\ t.pc = "return"
    /\ BagIn(t, tasks)
    /\ egErr' = errOnce(egErr, t.err)
    /\ tasks' = Move(tasks, t, ExitTask)
    /\ UNCHANGED <<call, disk, frame, expand, update, forced, parallelTasks,
                   openable, env0, env,
                   file, scanErr, number, closed, pc, outputs, cancelled, i,
                   ret>>

\* The range loop of a goroutine ends on the closed channel: return nil.
RangeEnd ==
    /\ closed
    /\ BagIn(RangeTask, tasks)
    /\ tasks' = Move(tasks, RangeTask, ExitTask)
    /\ UNCHANGED <<call, disk, frame, expand, update, forced, parallelTasks,
                   openable, env0, env,
                   file, scanErr, number, closed, pc, outputs, cancelled,
                   egErr, i, ret>>

\* A faulty variant of Joined: eg.Wait() does not wait for the goroutines.
JoinedAtOnce(b) == TRUE

\* eg.Wait() blocks until every goroutine started by eg.Go has returned.
Joined(b) == BagToSet(b) = {ExitTask}

\* eg.Wait() returns once every goroutine has returned.
Wait ==
    /\ pc = "wait"
    /\ Joined(tasks)
    /\ cancelled' = TRUE
    /\ IF WaitFailed(egErr)
       THEN /\ ret' = egErr
            /\ pc' = "done"
       ELSE /\ pc' = "apply"
            /\ ret' = ret
    /\ UNCHANGED <<call, disk, frame, expand, update, forced, parallelTasks,
                   openable, env0, env,
                   file, scanErr, number, closed, tasks, outputs, egErr, i>>

\* The body of the apply loop for a stored item, value being the value it
\* sets.
Set(item, value) ==
    IF SetenvReturns(item.key, value)
    THEN /\ ret' = SetenvErr
         /\ pc' = "done"
         /\ UNCHANGED <<env, i>>
    ELSE /\ env' = Setenv(env, item.key, value)
         /\ i' = i + 1
         /\ UNCHANGED <<pc, ret>>

\* One iteration of the apply loop, or its end.
Apply ==
    /\ pc = "apply"
    /\ IF i >= number
       THEN /\ ret' = NoErr
            /\ pc' = "done"
            /\ UNCHANGED <<env, i>>
       ELSE IF i \notin DOMAIN outputs
       THEN /\ i' = i + 1
            /\ UNCHANGED <<env, pc, ret>>
       ELSE IF ShouldSet(update, env, outputs[i].key)
       THEN Set(outputs[i], ItemValue(expand, outputs[i], env))
       ELSE /\ i' = i + 1
            /\ UNCHANGED <<env, pc, ret>>
    /\ UNCHANGED <<call, disk, frame, expand, update, forced, parallelTasks,
                   openable, env0, file,
                   scanErr, number, closed, tasks, outputs, cancelled, egErr>>

Next ==
    \/ OpenFile
    \/ ScanLine
    \/ ScanEnd
    \/ Receive
    \/ \E t \in BagToSet(tasks) : Parse(t)
    \/ \E t \in BagToSet(tasks) : ReturnErr(t)
    \/ RangeEnd
    \/ Wait
    \/ Apply

Spec == Init /\ [][Next]_vars

----------------------------------------------------------------------------
(* splitN.  A string is here the sequence of its bytes; a byte of 0x80 or  *)
(* more is written by its two hexadecimal digits.                          *)

\* The character e with an acute accent, U+00E9, and its UTF-8 bytes.
EAcute == "U+00E9"

EAcuteBytes == <<"C3", "A9">>

\* The bytes 0x80 to 0xBF, which continue a character, among those of the
\* model.
IsContinuation(b) == b \in {"A9", "83"}

\* utf8.RuneCountInString on well-formed UTF-8.
RuneCountInString(s) ==
    Cardinality({k \in 1..Len(s) : ~IsContinuation(s[k])})

\* string(char) for char = rune(b), b a byte: the UTF-8 bytes of the
\* character whose number is the byte (U+00C3 for 0xC3, U+00A9 for 0xA9).
RuneString(b) ==
    IF b = "C3" THEN <<"C3", "83">>
    ELSE IF b = "A9" THEN <<"C2", "A9">>
    ELSE <<b>>

\* The string of the characters s as bytes.
RECURSIVE ToBytes(_)
ToBytes(s) ==
    IF Len(s) = 0 THEN <<>>
    ELSE (IF s[1] = EAcute THEN EAcuteBytes ELSE <<s[1]>>)
         \o ToBytes(SubSeq(s, 2, Len(s)))

quotes == {"\"", "'", BackQuote}

brackets == {"(", "{", "["}

\* flips[char]; the rune 0 for a character that closes nothing.
flips(char) ==
    IF char = "}" THEN "{"
    ELSE IF char = "]" THEN "["
    ELSE IF char = ")" THEN "("
    ELSE NUL

\* contains(quotes, host, char) and contains(brackets, host, flips[char]):
\* both runes are found in the set at the same index.
containsBoth(set, a, b) == a \in set /\ a = b

\* The code after the loop: the last piece is added when it is not empty or
\* when the last character read is the separator.
LastPiece(sep, char, tmp, r) ==
    IF Len(tmp) # 0 \/ RuneString(char) = sep THEN Append(r, tmp) ELSE r

\* str[i:endpoint] with 0-based i.
Slice(str, from, to) == SubSeq(str, from + 1, to)

\* The loop of splitN from index i (0-based) on.
RECURSIVE SplitLoop(_, _, _, _, _, _, _, _, _)
SplitLoop(str, sep, n, k, level, host, char, tmp, r) ==
    IF k >= RuneCountInString(str) THEN LastPiece(sep, char, tmp, r)
    ELSE IF level = 0 /\ str[k + 1] \in quotes \cup brackets
    THEN SplitLoop(str, sep, n, k + 1, level + 1, str[k + 1], str[k + 1],
                   tmp \o RuneString(str[k + 1]), r)
    ELSE IF containsBoth(quotes, host, str[k + 1])
    THEN SplitLoop(str, sep, n, k + 1, 0, NUL, str[k + 1],
                   tmp \o RuneString(str[k + 1]), r)
    ELSE IF containsBoth(brackets, host, flips(str[k + 1]))
    THEN SplitLoop(str, sep, n, k + 1,
                   IF level - 1 <= 0 THEN 0 ELSE level - 1,
                   IF level - 1 <= 0 THEN NUL ELSE host,
                   str[k + 1], tmp \o RuneString(str[k + 1]), r)
    ELSE IF /\ level = 0
            /\ sep = Slice(str, k, IF k + RuneCountInString(sep) > Len(str)
                                   THEN Len(str)
                                   ELSE k + RuneCountInString(sep))
    THEN IF n > 0 /\ n = Len(r) + 2
         THEN LastPiece(sep, str[k + 1],
                        Slice(str, k + RuneCountInString(sep), Len(str)),
                        Append(r, tmp))
         ELSE SplitLoop(str, sep, n, k + RuneCountInString(sep), level, host,
                        str[k + 1], <<>>, Append(r, tmp))
    ELSE SplitLoop(str, sep, n, k + 1, level, host, str[k + 1],
                   tmp \o RuneString(str[k + 1]), r)

splitN(str, sep, n) ==
    IF n = 0 THEN <<>>
    ELSE IF n = 1 THEN <<str>>
    ELSE SplitLoop(str, sep, n, 0, 0, NUL, NUL, <<>>, <<>>)

----------------------------------------------------------------------------
(* The functions of the package called one at a time: ParallelTasks,       *)
(* isEmpty, parseExpression, splitN and the body of a parse goroutine.     *)

\* A faulty variant of clamp: the lower limit is not applied.
clampUpperOnly(value, min, max) == IF value > max THEN max ELSE value

\* clamp returns the value limited to the given range [min, max].
clamp(value, min, max) ==
    IF value < min THEN min
    ELSE IF value > max THEN max
    ELSE value

\* ParallelTasks(pt): the new value of parallelTasks, which it also returns;
\* MaxTasks is "max", runtime.NumCPU() * 2.
ParallelTasks(pt) == clamp(pt, MinTasks, MaxTasks)

\* The pool sizes asked for: below, inside and above the range.
PtInputs == (MinTasks - 3)..(MaxTasks + 2)

ParallelTasksCalls == {Call("ParallelTasks", <<pt>>) : pt \in PtInputs}

\* Every string of at most n characters of the alphabet.
RECURSIVE Strings(_, _)
Strings(alphabet, n) ==
    IF n = 0 THEN {<<>>}
    ELSE Strings(alphabet, n - 1) \cup
         {Append(s, c) : s \in Strings(alphabet, n - 1), c \in alphabet}

\* What comes before the value in the expressions tried: well-formed heads
\* (with leading space, with export, with an underscore and a digit in the
\* key) and malformed ones (a key starting with a digit, a space before the
\* = sign, no = sign, no key, export without a key).
GoodHeads ==
    { <<"K", "=">>,
      <<" ", "\t", "K", "=">>,
      Export \o <<" ", "K", "=">>,
      Export \o <<"\t", " ", "_", "a", "1", "=">>,
      Export \o <<"=">> }

BadHeads ==
    { <<"1", "K", "=">>,
      <<"K", " ", "=">>,
      <<"K">>,
      <<>>,
      <<"=">>,
      <<VT, "K", "=">>,
      Export \o <<" ", "=">>,
      Export \o <<"K", " ", "=">> }

Heads == GoodHeads \cup BadHeads

ValueAlphabet == {"a", " ", "#", "\"", "\\", VT}

\* Values quoted with the other two quote characters.
OtherQuotes ==
    { <<"'", "#", "\\", "'", "'", " ", "#", "'">>,
      <<"'", "\"", "'">>,
      <<"'", "a">>,
      <<BackQuote, "#", "\\", BackQuote, BackQuote, "#", "a">>,
      <<BackQuote, "'", "a">> }

Values == Strings(ValueAlphabet, MaxValueLen) \cup OtherQuotes

\* The expressions parseExpression is called on: every value after the
\* plain head, and the short values after every head.
Expressions ==
    {<<"K", "=">> \o v : v \in Values} \cup
    {h \o v : h \in Heads, v \in Strings(ValueAlphabet, 2)}

ParseCalls == {Call("parseExpression", <<exp>>) : exp \in Expressions}

LineAlphabet == {" ", "\t", VT, "#", "K", "="}

\* The lines isEmpty and the body of a parse goroutine are run on.
Lines == Strings(LineAlphabet, MaxLineLen)

IsEmptyCalls == {Call("isEmpty", <<str>>) : str \in Lines}

\* A parse goroutine that has received the line text as line 0 of the file.
GoroutineCalls == {Call("goroutine", <<text>>) : text \in Lines}

SplitAlphabet == {"a", ",", "(", ")", "'"}

\* The strings splitN is called on: every ASCII string of the alphabet, and
\* short strings with a character of two bytes.
AsciiStrings == Strings(SplitAlphabet, MaxStrLen)

WideStrings == {ToBytes(s) : s \in Strings({"a", ",", EAcute}, 3)}

\* The separators: of one character and of two.
Separators == {<<",">>, <<",", ",">>}

\* Without limit on every string with both separators; with every limit on
\* the shorter strings.
SplitCalls ==
    {Call("splitN", <<str, sep, -1>>) :
        str \in AsciiStrings \cup WideStrings, sep \in Separators} \cup
    {Call("splitN", <<str, sep, n>>) :
        str \in Strings(SplitAlphabet, MaxStrLen - 1), sep \in Separators,
        n \in 0..MaxLimit}

\* The calls tried.
IsCall(c) ==
    \/ c \in ParallelTasksCalls
    \/ c \in ParseCalls
    \/ c \in IsEmptyCalls
    \/ c \in GoroutineCalls
    \/ c \in SplitCalls

CallInit ==
    /\ IsCall(call)
    /\ parallelTasks \in IF call.fn = "ParallelTasks" THEN MinTasks..MaxTasks
                         ELSE {MinTasks}
    /\ expand \in IF call.fn = "goroutine" THEN BOOLEAN ELSE {FALSE}
    /\ update = FALSE
    /\ forced \in IF call.fn = "goroutine" THEN BOOLEAN ELSE {FALSE}
    /\ openable = TRUE
    /\ env0 = EmptyEnv
    /\ env = env0
    /\ file = IF call.fn = "goroutine" THEN <<call.args[1]>> ELSE <<>>
    /\ scanErr = FALSE
    /\ number = IF call.fn = "goroutine" THEN 1 ELSE 0
    /\ closed = FALSE
    /\ pc = IF call.fn = "ParallelTasks" THEN "open"
            ELSE IF call.fn = "goroutine" THEN "scan"
            ELSE "idle"
    /\ tasks = IF call.fn = "goroutine"
               THEN Move([t \in {RangeTask} |-> parallelTasks], RangeTask,
                         Task("parse", 0, NoErr))
               ELSE [t \in {NewTask} |-> parallelTasks]
    /\ outputs = [k \in {} |-> 0]
    /\ cancelled = FALSE
    /\ egErr = NoErr
    /\ i = 0
    /\ ret = Pending
    /\ disk = <<>>
    /\ frame = Locals

\* What a call leaves alone when it only computes a result.
pipeline == <<expand, update, forced, openable, env0, env, file, scanErr,
              number, closed, pc, tasks, outputs, cancelled, egErr, i, ret>>

\* ParallelTasks(pt) runs: it sets parallelTasks and returns it.
CallParallelTasks ==
    /\ call.fn = "ParallelTasks"
    /\ ~call.done
    /\ parallelTasks' = ParallelTasks(call.args[1])
    /\ call' = [call EXCEPT !.done = TRUE, !.out = parallelTasks']
    /\ UNCHANGED <<disk, frame, pipeline>>

\* parseExpression(exp) runs and returns key, value and err.
CallParseExpression ==
    /\ call.fn = "parseExpression"
    /\ ~call.done
    /\ call' = [call EXCEPT !.done = TRUE,
                            !.out = parseExpression(call.args[1])]
    /\ UNCHANGED <<parallelTasks, disk, frame, pipeline>>

\* isEmpty(str) runs and returns.
CallIsEmpty ==
    /\ call.fn = "isEmpty"
    /\ ~call.done
    /\ call' = [call EXCEPT !.done = TRUE, !.out = isEmpty(call.args[1])]
    /\ UNCHANGED <<parallelTasks, disk, frame, pipeline>>

\* splitN(str, sep, n) runs and returns.
CallSplitN ==
    /\ call.fn = "splitN"
    /\ ~call.done
    /\ call' = [call EXCEPT
                  !.done = TRUE,
                  !.out = splitN(call.args[1], call.args[2], call.args[3])]
    /\ UNCHANGED <<parallelTasks, disk, frame, pipeline>>

CallNext ==
    \/ CallParallelTasks
    \/ CallParseExpression
    \/ CallIsEmpty
    \/ CallSplitN
    \/ \E t \in BagToSet(tasks) : Parse(t)
    \/ OpenFile

CallSpec == CallInit /\ [][CallNext]_vars

----------------------------------------------------------------------------
(* splitN run one iteration of its loop at a time.                         *)

\* r = append(r, piece); the pieces beyond MaxPieces are not kept.
AppendPiece(r, piece) == IF Len(r) < MaxPieces THEN Append(r, piece) ELSE r

\* endpoint := i + utf8.RuneCountInString(sep), at most len(str).
Endpoint(str, sep, k) ==
    IF k + RuneCountInString(sep) > Len(str) THEN Len(str)
    ELSE k + RuneCountInString(sep)

\* The separators: of no character, of one and of two.
LoopSeparators == {<<>>, <<",">>, <<",", ",">>}

LoopCalls ==
    {Call("splitN", <<str, sep, n>>) :
        str \in Strings(SplitAlphabet, MaxLoopLen) \cup WideStrings,
        sep \in LoopSeparators,
        n \in (0 - 1)..MaxLimit}

LoopInit ==
    /\ call \in LoopCalls
    /\ parallelTasks = MinTasks
    /\ expand = FALSE
    /\ update = FALSE
    /\ forced = FALSE
    /\ openable = TRUE
    /\ env0 = EmptyEnv
    /\ env = env0
    /\ file = <<>>
    /\ scanErr = FALSE
    /\ number = 0
    /\ closed = FALSE
    /\ pc = "enter"
    /\ tasks = [t \in {NewTask} |-> parallelTasks]
    /\ outputs = [k \in {} |-> 0]
    /\ cancelled = FALSE
    /\ egErr = NoErr
    /\ i = 0
    /\ ret = Pending
    /\ disk = <<>>
    /\ frame = Locals

\* What a step of splitN leaves alone.
outside == <<expand, update, forced, parallelTasks, openable, env0, env,
             file, scanErr, number, closed, tasks, outputs, cancelled, egErr,
             i, ret, disk>>

\* The code before the loop: n = 0 and n = 1 return at once.
SplitEnter ==
    /\ pc = "enter"
    /\ IF call.args[3] = 0
       THEN /\ call' = [call EXCEPT !.done = TRUE, !.out = <<>>]
            /\ pc' = "returned"
       ELSE IF call.args[3] = 1
       THEN /\ call' = [call EXCEPT !.done = TRUE, !.out = <<call.args[1]>>]
            /\ pc' = "returned"
       ELSE /\ call' = call
            /\ pc' = "for"
    /\ frame' = Locals
    /\ UNCHANGED outside

\* The body of the loop for the byte c at index frame.i, followed by i++,
\* or the break out of the loop.
SplitBody(str, sep, n, c) ==
    IF frame.level = 0 /\ c \in quotes \cup brackets
    THEN /\ frame' = [frame EXCEPT !.char = c, !.host = c,
                                   !.level = frame.level + 1,
                                   !.tmp = frame.tmp \o RuneString(c),
                                   !.i = frame.i + 1]
         /\ pc' = "for"
    ELSE IF containsBoth(quotes, frame.host, c)
    THEN /\ frame' = [frame EXCEPT !.char = c, !.host = NUL, !.level = 0,
                                   !.tmp = frame.tmp \o RuneString(c),
                                   !.i = frame.i + 1]
         /\ pc' = "for"
    ELSE IF containsBoth(brackets, frame.host, flips(c))
    THEN /\ frame' = [frame EXCEPT
                        !.char = c,
                        !.host = IF frame.level - 1 <= 0 THEN NUL
                                 ELSE frame.host,
                        !.level = IF frame.level - 1 <= 0 THEN 0
                                  ELSE frame.level - 1,
                        !.tmp = frame.tmp \o RuneString(c),
                        !.i = frame.i + 1]
         /\ pc' = "for"
    ELSE IF /\ frame.level = 0
            /\ sep = Slice(str, frame.i, Endpoint(str, sep, frame.i))
    THEN IF n > 0 /\ n = Len(AppendPiece(frame.r, frame.tmp)) + 1
         THEN /\ frame' = [frame EXCEPT
                             !.char = c,
                             !.i = frame.i + RuneCountInString(sep) - 1,
                             !.r = AppendPiece(frame.r, frame.tmp),
                             !.tmp = Slice(str, Endpoint(str, sep, frame.i),
                                           Len(str))]
              /\ pc' = "last"
         ELSE /\ frame' = [frame EXCEPT
                             !.char = c,
                             !.i = frame.i + RuneCountInString(sep) - 1 + 1,
                             !.r = AppendPiece(frame.r, frame.tmp),
                             !.tmp = <<>>]
              /\ pc' = "for"
    ELSE /\ frame' = [frame EXCEPT !.char = c,
                                   !.tmp = frame.tmp \o RuneString(c),
                                   !.i = frame.i + 1]
         /\ pc' = "for"

\* for i := 0; i < utf8.RuneCountInString(str); ...: the test of the loop.
SplitTest ==
    /\ pc = "for"
    /\ pc' = IF frame.i < RuneCountInString(call.args[1]) THEN "body"
             ELSE "last"
    /\ UNCHANGED <<call, frame, outside>>

\* One iteration of the loop.
SplitIterate ==
    /\ pc = "body"
    /\ SplitBody(call.args[1], call.args[2], call.args[3],
                 call.args[1][frame.i + 1])
    /\ UNCHANGED <<call, outside>>

\* The code after the loop: the last piece is added and r is returned.
SplitReturn ==
    /\ pc = "last"
    /\ call' = [call EXCEPT
                  !.done = TRUE,
                  !.out = IF \/ Len(frame.tmp) # 0
                             \/ RuneString(frame.char) = call.args[2]
                          THEN AppendPiece(frame.r, frame.tmp)
                          ELSE frame.r]
    /\ pc' = "returned"
    /\ UNCHANGED <<frame, outside>>

LoopNext ==
    \/ SplitEnter
    \/ SplitTest
    \/ SplitIterate
    \/ SplitReturn

\* The thread that called splitN keeps running.
LoopSpec == LoopInit /\ [][LoopNext]_vars /\ WF_vars(LoopNext)

----------------------------------------------------------------------------
(* Save and marshalEnv.  A struct value is the sequence of its fields; a   *)
(* field has a name, the env tag, a kind and, by kind, a string, a number  *)
(* or the fields of a nested struct.                                       *)

Field(name_, tag_, kind_, str_, int_, fields_) ==
    [name |-> name_, tag |-> tag_, kind |-> kind_, str |-> str_,
     int |-> int_, fields |-> fields_]

DecimalDigits == <<"0", "1", "2", "3", "4", "5", "6", "7", "8", "9">>

\* fmt.Sprintf("%d", n)
RECURSIVE Sprintd(_)
Sprintd(n) ==
    IF n < 0 THEN <<"-">> \o Sprintd(0 - n)
    ELSE IF n < 10 THEN <<DecimalDigits[n + 1]>>
    ELSE Sprintd(n \div 10) \o <<DecimalDigits[(n % 10) + 1]>>

\* The kinds toStr converts; for any other kind (chan, map ...) it returns
\* an error.
toStrKinds == {"string", "int"}

toStr(item) == IF item.kind = "int" THEN Sprintd(item.int) ELSE item.str

IncorrectType == [kind |-> "incorrect type", text |-> <<>>]

InvalidKeyName(key) ==
    [kind |-> "the field does not have a valid key name value", text |-> key]

\* validKeyRgx: a letter or an underscore, then letters, digits and
\* underscores up to the end.
validKeyRgx(key) ==
    /\ Len(key) >= 1
    /\ IsKeyStart(key[1])
    /\ \A k \in 1..Len(key) : IsKeyChar(key[k])

\* key := strings.TrimSpace(field.Tag.Get(tagNameKey)); if key == "" { key
\* = field.Name }
FieldKey(field) ==
    IF TrimSpace(field.tag) = <<>> THEN field.name ELSE TrimSpace(field.tag)

\* marshalEnv(prefix, obj, idle) called in the environment e: the items it
\* returns, the environment it leaves and its error.  MarshalFrom is its
\* loop over the fields from field k on.
RECURSIVE marshalEnv(_, _, _, _)
RECURSIVE MarshalFrom(_, _, _, _, _, _)
MarshalFrom(prefix, obj, idle, k, result, e) ==
    IF k > Len(obj) THEN [result |-> result, env |-> e, err |-> NoErr]
    ELSE IF ~validKeyRgx(FieldKey(obj[k]))
    THEN [result |-> result, env |-> e,
          err |-> InvalidKeyName(FieldKey(obj[k]))]
    ELSE IF obj[k].kind = "struct"
    THEN LET sub == marshalEnv(prefix \o FieldKey(obj[k]) \o <<"_">>,
                               obj[k].fields, FALSE, e)
         IN  IF sub.err # NoErr
             THEN [result |-> result, env |-> sub.env, err |-> sub.err]
             ELSE MarshalFrom(prefix, obj, idle, k + 1,
                              result \o sub.result, sub.env)
    ELSE IF obj[k].kind \notin toStrKinds
    THEN [result |-> result, env |-> e, err |-> IncorrectType]
    ELSE IF ~idle /\ SetenvFails(prefix \o FieldKey(obj[k]), toStr(obj[k]))
    THEN [result |-> result, env |-> e, err |-> SetenvErr]
    ELSE MarshalFrom(prefix, obj, idle, k + 1,
                     Append(result,
                            prefix \o FieldKey(obj[k]) \o <<"=">>
                                   \o toStr(obj[k])),
                     IF idle THEN e
                     ELSE Setenv(e, prefix \o FieldKey(obj[k]),
                                 toStr(obj[k])))

marshalEnv(prefix, obj, idle, e) == MarshalFrom(prefix, obj, idle, 1, <<>>, e)

WriteErr == [kind |-> "write", text |-> <<>>]

\* The string values of the fields saved.
SaveStrings == Strings({"a", " ", "#"}, MaxFieldLen)

\* The numbers of the fields saved.
SaveInts == {0, 8080, 0 - 5}

StringFields(name_, tag_) ==
    {Field(name_, tag_, "string", s, 0, <<>>) : s \in SaveStrings}

IntFields(name_, tag_) ==
    {Field(name_, tag_, "int", <<>>, n, <<>>) : n \in SaveInts}

\* Structs without a nested struct: a string field, or a string field and
\* a number field.
FlatObjects ==
    {<<h>> : h \in StringFields(<<"H", "o", "s", "t">>, <<"A">>)} \cup
    {<<h, p>> : h \in StringFields(<<"H", "o", "s", "t">>, <<"A">>),
                p \in IntFields(<<"B">>, <<" ">>)}

\* Structs with a nested struct, and with a struct nested in a nested
\* struct.
NestedObjects ==
    {<<Field(<<"C">>, <<"C">>, "struct", <<>>, 0, <<h>>)>> :
        h \in StringFields(<<"A">>, <<>>)} \cup
    {<<p, Field(<<"C">>, <<>>, "struct", <<>>, 0,
                <<Field(<<"D">>, <<"K">>, "struct", <<>>, 0, <<q>>)>>)>> :
        p \in IntFields(<<"B">>, <<"B">>), q \in IntFields(<<"A">>, <<>>)}

\* Structs marshalEnv refuses: a field of a kind it does not convert, a
\* key that is not a name.
RefusedObjects ==
    { <<Field(<<"A">>, <<>>, "chan", <<>>, 0, <<>>)>>,
      <<Field(<<"A">>, <<"1", "A">>, "string", <<"a">>, 0, <<>>)>> }

SavePrefixes == {<<>>, <<"K", "_">>}

SaveCalls ==
    {Call("Save", <<prefix, obj>>) :
        prefix \in SavePrefixes,
        obj \in FlatObjects \cup NestedObjects \cup RefusedObjects}

\* Save(filename, prefix, obj) is called, and Load(filename) after it:
\* expand, update, forced := true, false, false.
SaveInit ==
    /\ call \in SaveCalls
    /\ parallelTasks \in MinTasks..MaxTasks
    /\ expand = TRUE
    /\ update = FALSE
    /\ forced = FALSE
    /\ openable = TRUE
    /\ env0 \in InitialEnvs
    /\ env = env0
    /\ file = <<>>
    /\ scanErr = FALSE
    /\ number = 0
    /\ closed = FALSE
    /\ pc = "save"
    /\ tasks = [t \in {NewTask} |-> parallelTasks]
    /\ outputs = [k \in {} |-> 0]
    /\ cancelled = FALSE
    /\ egErr = NoErr
    /\ i = 0
    /\ ret = Pending
    /\ disk = <<>>
    /\ frame = Locals

\* The body of Save, m being what marshalEnv(prefix, obj, true) gives and
\* written whether os.WriteFile succeeds: each item is a line of the file.
SaveBody(m, written) ==
    /\ env' = m.env
    /\ call' = [call EXCEPT
                  !.done = TRUE,
                  !.out = IF m.err # NoErr THEN m.err
                          ELSE IF written THEN NoErr
                          ELSE WriteErr]
    /\ IF m.err = NoErr /\ written
       THEN /\ disk' = m.result
            /\ pc' = "open"
       ELSE /\ disk' = disk
            /\ pc' = "done"

Save ==
    /\ pc = "save"
    /\ \E written \in BOOLEAN :
          SaveBody(marshalEnv(call.args[1], call.args[2], TRUE, env), written)
    /\ UNCHANGED <<frame, expand, update, forced, parallelTasks, openable,
                   env0, file, scanErr, number, closed, tasks, outputs,
                   cancelled, egErr, i, ret>>

\* scanner.Scan() returns true with the next line of the file Save wrote.
ScanSaved ==
    /\ pc = "scan"
    /\ Len(file) < Len(disk)
    /\ file' = Append(file, disk[Len(file) + 1])
    /\ pc' = "send"
    /\ UNCHANGED <<call, disk, frame, expand, update, forced, parallelTasks,
                   openable, env0, env, scanErr, number, closed, tasks,
                   outputs, cancelled, egErr, i, ret>>

\* scanner.Scan() returns false after the last line of that file.
ScanSavedEnd ==
    /\ Len(file) = Len(disk)
    /\ ScanEnd

SaveNext ==
    \/ Save
    \/ OpenFile
    \/ ScanSaved
    \/ ScanSavedEnd
    \/ Receive
    \/ \E t \in BagToSet(tasks) : Parse(t)
    \/ \E t \in BagToSet(tasks) : ReturnErr(t)
    \/ RangeEnd
    \/ Wait
    \/ Apply

SaveSpec == SaveInit /\ [][SaveNext]_vars

----------------------------------------------------------------------------
(* readParseStore with forced=false on a file with malformed lines.        *)

\* A line with an empty value: parseExpression returns incorrect value.
LineNoValue == <<"A", "=">>

\* The lines of the files with malformed lines: a declaration and two
\* lines that give different parse errors.
FailLines ==
    { <<"A", "=", "a">>,
      <<"1", "A", "=", "5">>,
      LineNoValue }

\* The files of at most MaxLines of these lines.
RECURSIVE FailFiles(_)
FailFiles(n) ==
    IF n = 0 THEN {<<>>}
    ELSE FailFiles(n - 1) \cup
         {Append(f, text) : f \in FailFiles(n - 1), text \in FailLines}

FailInit ==
    /\ expand \in BOOLEAN
    /\ update \in BOOLEAN
    /\ forced = FALSE
    /\ parallelTasks \in MinTasks..MaxTasks
    /\ openable = TRUE
    /\ env0 \in InitialEnvs
    /\ env = env0
    /\ file = <<>>
    /\ scanErr = FALSE
    /\ number = 0
    /\ closed = FALSE
    /\ pc = "open"
    /\ tasks = [t \in {NewTask} |-> parallelTasks]
    /\ outputs = [k \in {} |-> 0]
    /\ cancelled = FALSE
    /\ egErr = NoErr
    /\ i = 0
    /\ ret = Pending
    /\ call = Call("readParseStore", <<>>)
    /\ disk \in FailFiles(MaxLines)
    /\ frame = Locals

FailNext ==
    \/ OpenFile
    \/ ScanSaved
    \/ ScanSavedEnd
    \/ Receive
    \/ \E t \in BagToSet(tasks) : Parse(t)
    \/ \E t \in BagToSet(tasks) : ReturnErr(t)
    \/ RangeEnd
    \/ Wait
    \/ Apply

\* The Go scheduler runs every goroutine that can take a step.
FailSpec == FailInit /\ [][FailNext]_vars /\ WF_vars(FailNext)

----------------------------------------------------------------------------
(* The apply phase of the version of readParseStore that collects the      *)
(* outputs in a slice, in their order of arrival, and sorts the slice by   *)
(* line number in expand mode only.                                        *)

\* The files of at most MaxLines lines.
EnvFiles == UNION {[1..n -> EnvLines] : n \in 0..MaxLines}

\* The line is skipped or dropped by the goroutine that receives it.
NoOutput(text) == isEmpty(text) \/ parseExpression(text).err # NoErr

\* The output a goroutine appends for line n (1-based) of the file.
Output(lines, n, expand_) ==
    [expanded |-> Expanded(expand_, parseExpression(lines[n]).value),
     value |-> parseExpression(lines[n]).value,
     line |-> n - 1,
     key |-> parseExpression(lines[n]).key]

\* The outputs of the lines from line n on, by line number.
RECURSIVE Outputs(_, _, _)
Outputs(lines, n, expand_) ==
    IF n > Len(lines) THEN <<>>
    ELSE (IF NoOutput(lines[n]) THEN <<>>
          ELSE <<Output(lines, n, expand_)>>)
         \o Outputs(lines, n + 1, expand_)

\* The slice after eg.Wait(): the outputs in any order of arrival, indexed
\* from 0; after sort.Slice in expand mode, in the order of the lines.
Slices(outs, expand_) ==
    {[k \in 0..(Len(outs) - 1) |-> outs[p[k + 1]]] :
        p \in {q \in [1..Len(outs) -> 1..Len(outs)] :
                  /\ \A a, b \in 1..Len(outs) : q[a] = q[b] => a = b
                  /\ expand_ => \A a \in 1..Len(outs) : q[a] = a}}

\* The file was read and parsed without error, every goroutine has returned.
OrderInit ==
    /\ expand \in BOOLEAN
    /\ update \in BOOLEAN
    /\ forced \in BOOLEAN
    /\ parallelTasks \in MinTasks..MaxTasks
    /\ openable = TRUE
    /\ env0 \in InitialEnvs
    /\ env = env0
    /\ file \in EnvFiles
    /\ forced \/ \A n \in 1..Len(file) :
                    isEmpty(file[n]) \/ parseExpression(file[n]).err = NoErr
    /\ scanErr = FALSE
    /\ number = Len(file)
    /\ closed = TRUE
    /\ pc = "apply"
    /\ tasks = [t \in {ExitTask} |-> parallelTasks]
    /\ outputs \in Slices(Outputs(file, 1, expand), expand)
    /\ cancelled = TRUE
    /\ egErr = NoErr
    /\ i = 0
    /\ ret = Pending
    /\ call = Call("readParseStore", <<>>)
    /\ disk = file
    /\ frame = Locals

OrderNext == Apply

OrderSpec == OrderInit /\ [][OrderNext]_vars

----------------------------------------------------------------------------
(* What the claims are stated against: the file applied one line after     *)
(* the other by a single thread, written out without the operators of the  *)
(* model above.                                                            *)

Returned == pc = "done"

Succeeded == pc = "done" /\ ret = NoErr

\* parseExpression on each line a file can hold.
Parsed == [text \in EnvLines |-> parseExpression(text)]

\* The line is a well-formed declaration.
IsDecl(text) == ~isEmpty(text) /\ Parsed[text].err = NoErr

KeyOf(text) == Parsed[text].key

ValueOf(text) == Parsed[text].value

\* The value the declaration stores when it is applied to environment e.
RefValue(text, e) ==
    LET v == ValueOf(text)
    IN  IF expand /\ Contains(v, "$") THEN ExpandEnv(v, e) ELSE v

\* The declaration is applied to e: the policy lets it write its key.
RefWrites(text, e) == IsDecl(text) /\ (update \/ KeyOf(text) \notin DOMAIN e)

\* Applying the declaration to e makes os.Setenv fail.
RefFails(text, e) == RefWrites(text, e) /\ Contains(RefValue(text, e), NUL)

RefStep(e, text) ==
    IF RefWrites(text, e)
    THEN LET v == RefValue(text, e)
         IN  IF Contains(v, NUL) THEN e ELSE Setenv(e, KeyOf(text), v)
    ELSE e

\* The environment after the first n lines were applied in file order.
RECURSIVE RefEnv(_, _)
RefEnv(lines, n) ==
    IF n = 0 THEN env0 ELSE RefStep(RefEnv(lines, n - 1), lines[n])

LineA == <<"A", "=", "a">>

LineB == <<"B", "=", "$", "{", "A", "}", "$", "A">>

LineC == <<"A", "=", "c">>

LineBad == <<"1", "A", "=", "5">>

LineNul == <<"B", "=", NUL>>

----------------------------------------------------------------------------
C2_AbortLeavesEnv ==
    /\ egErr # NoErr => ~forced /\ env = env0 /\ pc # "apply" /\ i = 0
    /\ ret.kind \in ParseErrKinds => ret = egErr

\* The call returned a parse error although the declaration of an earlier
\* line had been parsed and stored.
C2_Witness ==
    /\ Returned
    /\ ret.kind \in ParseErrKinds
    /\ Len(file) >= 2 /\ file[1] = LineA /\ file[2] = LineBad
    /\ 0 \in DOMAIN outputs
    /\ env = env0

\* C3: every call returns: in each state the call has returned or some
\* goroutine can take a step (nothing stays blocked on the lines channel).
C3_Terminates == Returned \/ ENABLED Next

\* C4: with forced=true no goroutine ever returns a parse error and the
\* call returns nil or an open, read or Setenv error; when it returns nil
\* the outputs are exactly the well-formed declarations of the file and
\* the environment is the one applying them in file order gives.
C4_ForcedTolerates ==
    forced =>
        /\ egErr = NoErr
        /\ \A t \in BagToSet(tasks) : t.pc # "return"
        /\ Returned => ret \in {NoErr, OpenErr, ReadErr, SetenvErr}
        /\ Succeeded =>
             /\ DOMAIN outputs = {n \in 0..(Len(file) - 1) : IsDecl(file[n + 1])}
             /\ env = RefEnv(file, Len(file))

\* A forced call succeeded on a file with a malformed line between two
\* declarations, both of which were applied.
C4_Witness ==
    /\ forced /\ update
    /\ Succeeded
    /\ file = <<LineB, LineBad, LineC>>
    /\ DOMAIN outputs = {0, 2}
    /\ env = Setenv(Setenv(EmptyEnv, <<"A">>, <<"c">>), <<"B">>, <<>>)

\* C5: with update=false every key of the environment the call started in
\* keeps its value, the empty string included, in every state of the call.
C5_LoadKeepsExisting ==
    ~update => \A k \in DOMAIN env0 : k \in DOMAIN env /\ env[k] = env0[k]

\* A successful call with update=false on a file that declares the key A,
\* which existed with the empty string, and the absent key B, which it set.
C5_Witness ==
    /\ ~update
    /\ Succeeded
    /\ env0 = Setenv(EmptyEnv, <<"A">>, <<>>)
    /\ \E n \in 1..Len(file) : file[n] = LineA
    /\ <<"B">> \in DOMAIN env
    /\ env[<<"A">>] = <<>>

\* The last declaration of key k in the first n lines, 0 when there is none.
RECURSIVE LastDecl(_, _, _)
LastDecl(lines, k, n) ==
    IF n = 0 THEN 0
    ELSE IF IsDecl(lines[n]) /\ KeyOf(lines[n]) = k THEN n
    ELSE LastDecl(lines, k, n - 1)

\* C6: with update=true, after a successful call every key declared by a
\* well-formed line of the file is set, to the value of its last
\* declaration in the file (expanded, in expand mode, in the environment
\* the lines before it leave).
C6_UpdateLastWins ==
    (update /\ Succeeded) =>
        \A n \in 1..Len(file) :
            IsDecl(file[n]) =>
                LET k == KeyOf(file[n])
                    m == LastDecl(file, k, Len(file))
                IN  /\ k \in DOMAIN env
                    /\ env[k] = RefValue(file[m], RefEnv(file, m - 1))

\* A successful update of a key that existed before the call and is
\* declared twice in the file.
C6_Witness ==
    /\ update
    /\ Succeeded
    /\ <<"A">> \in DOMAIN env0
    /\ file = <<LineA, LineC>>
    /\ env[<<"A">>] = <<"c">>

\* Line n (1-based) is the last of the first m lines to have written its
\* key when the file is applied in file order.
LastWriter(lines, n, m) ==
    /\ RefWrites(lines[n], RefEnv(lines, n - 1))
    /\ ~RefFails(lines[n], RefEnv(lines, n - 1))
    /\ \A j \in (n + 1)..m :
          ~(RefWrites(lines[j], RefEnv(lines, j - 1))
            /\ KeyOf(lines[j]) = KeyOf(lines[n]))

\* C7: in expand mode, once the apply loop has passed a declaration with a
\* reference, its key holds the value expanded in the environment the lines
\* below it left (unset names give the empty string), and it keeps that
\* value while later lines redefine the names it refers to.
C7_ExpandSeesEarlierLines ==
    (expand /\ pc \in {"apply", "done"}) =>
        \A n \in 1..i :
            (Contains(ValueOf(file[n]), "$") /\ LastWriter(file, n, i)) =>
                /\ KeyOf(file[n]) \in DOMAIN env
                /\ env[KeyOf(file[n])] =
                       ExpandEnv(ValueOf(file[n]), RefEnv(file, n - 1))

\* KEY_0=a, KEY_1=${KEY_0}..., KEY_0=c with expand and update: KEY_0 ends
\* as c and KEY_1 keeps the value expanded from a.
C7_Witness ==
    /\ expand /\ update
    /\ Succeeded
    /\ file = <<LineA, LineB, LineC>>
    /\ env[<<"A">>] = <<"c">>
    /\ env[<<"B">>] = <<"a", "a">>

\* C8: an output is marked expanded exactly when expand is true and its
\* value holds a $, and it keeps the value as parsed; with expand=false
\* every value the call has written is the parsed value of a declaration
\* of that key, references included.
C8_SafeKeepsLiteral ==
    /\ \A n \in DOMAIN outputs :
          /\ outputs[n].expanded =
                 (expand /\ Contains(ValueOf(file[n + 1]), "$"))
          /\ outputs[n].value = ValueOf(file[n + 1])
          /\ outputs[n].key = KeyOf(file[n + 1])
    /\ ~expand =>
          \A k \in DOMAIN env :
              \/ k \in DOMAIN env0 /\ env[k] = env0[k]
              \/ \E n \in 1..Len(file) :
                    IsDecl(file[n]) /\ KeyOf(file[n]) = k
                    /\ env[k] = ValueOf(file[n])

\* With expand=false the reference of line B was stored as written although
\* the name it refers to was set by the line before.
C8_Witness ==
    /\ ~expand
    /\ Succeeded
    /\ file = <<LineA, LineB>>
    /\ env[<<"B">>] = <<"$", "{", "A", "}", "$", "A">>
    /\ <<"A">> \in DOMAIN env

\* C9: a call on a file that cannot be opened returns the open error, a
\* call whose scanner failed returns the read error, whatever the policy,
\* and in both cases the environment is the one the call started in.
C9_IOErrorLeavesEnv ==
    /\ (Returned /\ ~openable) => ret = OpenErr
    /\ (Returned /\ scanErr) => ret = ReadErr
    /\ ret \in {OpenErr, ReadErr} => env = env0

\* A forced call returned the read error after a declaration had been
\* parsed and stored.
C9_Witness ==
    /\ forced
    /\ Returned
    /\ ret = ReadErr
    /\ DOMAIN outputs # {}
    /\ env = env0

\* The first line at or after n (1-based) whose os.Setenv fails when the
\* lines from n on are applied in file order to e, 0 when there is none.
RECURSIVE FirstFailureFrom(_, _, _)
FirstFailureFrom(lines, n, e) ==
    IF n > Len(lines) THEN 0
    ELSE IF RefFails(lines[n], e) THEN n
    ELSE FirstFailureFrom(lines, n + 1, RefStep(e, lines[n]))

FirstFailure(lines) == FirstFailureFrom(lines, 1, env0)

\* C10: when os.Setenv fails for the entry of line k, the apply loop goes no
\* further: the call returns that error and the environment is the one the
\* lines below k give, no line above k being applied.
C10_SetenvErrorStops ==
    /\ pc \in {"apply", "done"} =>
          \/ FirstFailure(file) = 0
          \/ i <= FirstFailure(file) - 1
    /\ Succeeded => FirstFailure(file) = 0
    /\ ret = SetenvErr =>
          /\ i = FirstFailure(file) - 1
          /\ env = RefEnv(file, i)

\* os.Setenv failed on the second line: the first line stays applied and
\* the third, a declaration, is not.
C10_Witness ==
    /\ ret = SetenvErr
    /\ update
    /\ file = <<LineA, LineNul, LineC>>
    /\ i = 1
    /\ env = Setenv(env0, <<"A">>, <<"a">>)

----------------------------------------------------------------------------
(* The claims about single calls, stated on CallSpec.                      *)

Called(fn_) == call.fn = fn_ /\ call.done

Parsed_ == Called("parseExpression")

AllRgxSpace(s) == \A k \in 1..Len(s) : RgxSpace(s[k])

\* What may stand before the key: white space, or white space, the word
\* export and at least one white space.
LeadOK(p) ==
    \/ AllRgxSpace(p)
    \/ \E x \in 1..Len(p) :
          /\ x + 6 <= Len(p)
          /\ AllRgxSpace(SubSeq(p, 1, x - 1))
          /\ SubSeq(p, x, x + 5) = <<"e", "x", "p", "o", "r", "t">>
          /\ AllRgxSpace(SubSeq(p, x + 6, Len(p)))

\* A key of the form [A-Za-z_][A-Za-z0-9_]*.
ValidKey(key) ==
    /\ Len(key) >= 1
    /\ key[1] \in Letters \cup {"_"}
    /\ \A k \in 1..Len(key) : key[k] \in Letters \cup Digits \cup {"_"}

\* The pairs <<s, q>> such that exp[s..q-1] is a valid key that follows a
\* permitted lead and is immediately followed by the = sign at q.
HeadsOf(exp) ==
    {sq \in (1..Len(exp)) \X (1..Len(exp)) :
        /\ sq[1] < sq[2]
        /\ exp[sq[2]] = "="
        /\ ValidKey(SubSeq(exp, sq[1], sq[2] - 1))
        /\ LeadOK(SubSeq(exp, 1, sq[1] - 1))}

\* C12: parseExpression succeeds only on a line made of optional white
\* space, an optional export followed by white space, a key of the form
\* [A-Za-z_][A-Za-z0-9_]* and the = sign right after it, and the key it
\* returns is that key; on any other line it returns the missing variable
\* name error.
C12_KeyWellFormed ==
    Parsed_ =>
        /\ call.out.err = NoErr =>
              /\ HeadsOf(call.args[1]) # {}
              /\ \A sq \in HeadsOf(call.args[1]) :
                    call.out.key = SubSeq(call.args[1], sq[1], sq[2] - 1)
              /\ ValidKey(call.out.key)
        /\ HeadsOf(call.args[1]) = {} =>
              call.out.err.kind = "missing variable name"

\* The line 1K=a was refused for its key.
C12_Witness ==
    /\ Parsed_
    /\ call.args[1] = <<"1", "K", "=", "a">>
    /\ call.out.err.kind = "missing variable name"

\* Position of the first = sign of the expression of the call (0: none).
FirstEq == IndexFrom(call.args[1], "=", 1)

\* The text after the first = sign, without the white space around it.
Declared == TrimSpace(Tail_(call.args[1], FirstEq + 1))

\* The declared value does not open with a quote character.
Unquoted == Len(Declared) = 0 \/ Declared[1] \notin {"'", "\"", BackQuote}

\* C13: on a line with a well-formed key, parseExpression returns the
\* incorrect value error whenever the first = sign is the last character or
\* is followed by white space, and it never accepts a declaration whose
\* unquoted value is empty.
C13_EmptyValueRefused ==
    (Parsed_ /\ HeadsOf(call.args[1]) # {}) =>
        /\ (\/ FirstEq = Len(call.args[1])
            \/ RgxSpace(call.args[1][FirstEq + 1])) =>
              call.out.err.kind = "incorrect value"
        /\ (call.out.err = NoErr /\ Unquoted) => call.out.value # <<>>

\* The line of the call has a well-formed key and a value that starts right
\* after the = sign.
Declares ==
    /\ Parsed_
    /\ HeadsOf(call.args[1]) # {}
    /\ FirstEq < Len(call.args[1])
    /\ ~RgxSpace(call.args[1][FirstEq + 1])

\* The quote characters of v that no backslash precedes.
BareQuotes(v, q) ==
    {k \in 1..Len(v) : v[k] = q /\ (k = 1 \/ v[k - 1] # "\\")}

\* Position of the quote that closes the one v opens with (0: none).
Closing(v, q) ==
    IF BareQuotes(v, q) \ {1} = {} THEN 0
    ELSE CHOOSE k \in BareQuotes(v, q) \ {1} :
            \A j \in BareQuotes(v, q) \ {1} : k <= j

\* v is a quoted value: an opening quote, a closing quote and after it
\* nothing but white space or white space and a comment.
WellQuoted(v, q) ==
    /\ Len(v) >= 2
    /\ v[1] = q
    /\ Closing(v, q) # 0
    /\ \A k \in (Closing(v, q) + 1)..Len(v) :
          \/ IsSpace(v[k])
          \/ \E h \in (Closing(v, q) + 1)..k :
                /\ v[h] = "#"
                /\ \A j \in (Closing(v, q) + 1)..(h - 1) : IsSpace(v[j])

\* s with every backslash followed by the quote replaced by the quote.
RECURSIVE Unescaped(_, _)
Unescaped(s, q) ==
    IF Len(s) = 0 THEN <<>>
    ELSE IF Len(s) >= 2 /\ s[1] = "\\" /\ s[2] = q
         THEN <<q>> \o Unescaped(SubSeq(s, 3, Len(s)), q)
         ELSE <<s[1]>> \o Unescaped(SubSeq(s, 2, Len(s)), q)

\* C14: for a value in quotes (', " or backquote) parseExpression returns
\* the text between the quotes: a # inside the quotes is kept, the comment
\* after the closing quote is dropped and a backslash followed by the quote
\* gives the quote.
C14_QuotedValue ==
    (/\ Declares
     /\ ~Unquoted
     /\ WellQuoted(Declared, Declared[1])) =>
        /\ call.out.err = NoErr
        /\ call.out.value =
              Unescaped(SubSeq(Declared, 2, Closing(Declared, Declared[1]) - 1),
                        Declared[1])

\* K='#\'' #' gave #': the # in the quotes and the escaped quote are kept,
\* the comment is dropped.
C14_Witness ==
    /\ Parsed_
    /\ call.args[1] = <<"K", "=", "'", "#", "\\", "'", "'", " ", "#", "'">>
    /\ call.out.err = NoErr
    /\ call.out.value = <<"#", "'">>

\* A # of v that stands outside the quotes: an even number of bare quotes
\* comes before it.
OutsideHash(v, q) ==
    \E h \in 1..Len(v) :
        /\ v[h] = "#"
        /\ Cardinality({k \in BareQuotes(v, q) : k < h}) % 2 = 0

\* C15: a quoted value in which the quote character, escaped quotes and
\* the comment set aside, occurs an odd number of times is refused with
\* the incorrect value error, and no quoted value makes parseExpression
\* panic.
C15_UnbalancedRefused ==
    /\ Parsed_ => call.out.err # SliceBounds
    /\ (/\ Declares
        /\ ~Unquoted
        /\ ~OutsideHash(Declared, Declared[1])
        /\ Cardinality(BareQuotes(Declared, Declared[1])) % 2 = 1) =>
          call.out.err.kind = "incorrect value"

\* K="\" was refused: its only other quote is escaped.
C15_Witness ==
    /\ Parsed_
    /\ call.args[1] = <<"K", "=", "\"", "\\", "\"">>
    /\ call.out.err.kind = "incorrect value"

\* The text of s before its first character that is in stops.
RECURSIVE Before(_, _)
Before(s, stops) ==
    IF Len(s) = 0 \/ s[1] \in stops THEN <<>>
    ELSE <<s[1]>> \o Before(SubSeq(s, 2, Len(s)), stops)

Blank(s) ==
    \/ AllRgxSpace(s)
    \/ \E h \in 1..Len(s) :
          /\ s[h] = "#"
          /\ AllRgxSpace(SubSeq(s, 1, h - 1))

SplitStr == call.args[1]

SplitSep == call.args[2]

SplitLimit == call.args[3]

\* strings.Join(r, sep)
RECURSIVE Join(_, _)
Join(r, sep) ==
    IF Len(r) = 0 THEN <<>>
    ELSE IF Len(r) = 1 THEN r[1]
    ELSE r[1] \o sep \o Join(SubSeq(r, 2, Len(r)), sep)

\* C18: splitN(str, sep, n) returns no element for n = 0 and str alone for
\* n = 1; for n > 1 it returns at most n elements of which the last is the
\* whole rest of str, so that the elements joined by sep give str; for
\* n < 0 it returns what it returns for a limit no split can reach.
C18_LimitHonoured ==
    Called("splitN") =>
        /\ SplitLimit = 0 => call.out = <<>>
        /\ SplitLimit = 1 => call.out = <<SplitStr>>
        /\ SplitLimit > 1 =>
              /\ Len(call.out) <= SplitLimit
              /\ Join(call.out, SplitSep) = SplitStr
        /\ SplitLimit < 0 =>
              call.out = splitN(SplitStr, SplitSep, Len(SplitStr) + 2)

\* The brackets of t are balanced.
Balanced(t) ==
    /\ Count(t, "(") = Count(t, ")")
    /\ \A k \in 1..Len(t) :
          Count(SubSeq(t, 1, k), "(") >= Count(SubSeq(t, 1, k), ")")

\* The matched bracket pairs of s: an opening and a closing bracket with
\* balanced text between them.
BracketPairs(s) ==
    {ab \in (1..Len(s)) \X (1..Len(s)) :
        /\ ab[1] < ab[2]
        /\ s[ab[1]] = "("
        /\ s[ab[2]] = ")"
        /\ Balanced(SubSeq(s, ab[1] + 1, ab[2] - 1))}

\* The matched quote pairs of s: an opening quote (an even number of quotes
\* comes before it) and the next quote.
QuotePairs(s) ==
    {ab \in (1..Len(s)) \X (1..Len(s)) :
        /\ ab[1] < ab[2]
        /\ s[ab[1]] = "'"
        /\ s[ab[2]] = "'"
        /\ Count(SubSeq(s, ab[1] + 1, ab[2] - 1), "'") = 0
        /\ Count(SubSeq(s, 1, ab[1] - 1), "'") % 2 = 0}

\* Where in str the k-th separator removed by the split starts.
SplitPoint(k) == Len(Join(SubSeq(call.out, 1, k), SplitSep)) + 1

\* C19: splitN does not split at a separator that lies inside a matched
\* pair of quotes or of brackets, a pair of brackets inside another pair of
\* brackets included.  (Stated on the strings that have brackets only or
\* quotes only, where the pairs are beyond doubt.)
C19_NoSplitInGroup ==
    (/\ Called("splitN")
     /\ SplitLimit < 0
     /\ Join(call.out, SplitSep) = SplitStr) =>
        \A k \in 1..(Len(call.out) - 1) :
            /\ Count(SplitStr, "'") = 0 =>
                  \A ab \in BracketPairs(SplitStr) :
                      ~(ab[1] < SplitPoint(k) /\ SplitPoint(k) < ab[2])
            /\ Count(SplitStr, "(") + Count(SplitStr, ")") = 0 =>
                  \A ab \in QuotePairs(SplitStr) :
                      ~(ab[1] < SplitPoint(k) /\ SplitPoint(k) < ab[2])

\* Every group of s is matched: the brackets are balanced and the quotes
\* come in pairs.
AllMatched(s) == Balanced(s) /\ Count(s, "'") % 2 = 0

\* C20: for a string whose groups are all matched, of ASCII characters or
\* not, and a separator of one character or more, the pieces of
\* splitN(str, sep, -1) joined by sep give str, also when str ends with sep.
C20_JoinGivesBack ==
    (/\ Called("splitN")
     /\ SplitLimit < 0
     /\ AllMatched(SplitStr)) =>
        Join(call.out, SplitSep) = SplitStr

----------------------------------------------------------------------------
(* The claims about Save, stated on SaveSpec: Save(file, prefix, obj) and  *)
(* then Load(file).                                                        *)

SavePrefix == call.args[1]

SaveObj == call.args[2]

\* Save has returned nil and Load has not applied a line yet.
Saved == Called("Save") /\ call.out = NoErr /\ i = 0

\* The key a field is saved under: its env tag, or its name without one.
KeyFor(f) ==
    IF \A k \in 1..Len(f.tag) : f.tag[k] = " " THEN f.name ELSE f.tag

\* The string form of a string or number field.
StrOf(f) ==
    IF f.kind = "string" THEN f.str
    ELSE IF f.int = 8080 THEN <<"8", "0", "8", "0">>
    ELSE IF f.int = 0 THEN <<"0">>
    ELSE <<"-", "5">>

\* The KEY=VALUE lines of a struct: one per string or number field, those of
\* a nested struct under the prefix made of its key and an underscore.
RECURSIVE LinesOf(_, _)
LinesOf(prefix, obj) ==
    IF Len(obj) = 0 THEN <<>>
    ELSE (IF obj[1].kind = "struct"
          THEN LinesOf(prefix \o KeyFor(obj[1]) \o <<"_">>, obj[1].fields)
          ELSE <<prefix \o KeyFor(obj[1]) \o <<"=">> \o StrOf(obj[1])>>)
         \o LinesOf(prefix, SubSeq(obj, 2, Len(obj)))

IsFlat(obj) == \A k \in 1..Len(obj) : obj[k].kind # "struct"

\* C21: when Save returns nil the file holds the KEY=VALUE lines of obj, and
\* the environment is the one Save was called in, for a flat struct and for
\* a struct with nested structs.
C21_SaveLeavesEnv ==
    Saved =>
        /\ disk = LinesOf(SavePrefix, SaveObj)
        /\ env = env0

\* C22: after Save(file, "", obj) has written the file of a struct of string
\* and number fields whose keys are absent from the environment, Load(file),
\* unless reading fails, returns nil and leaves each key with the string
\* form of its field, the empty string and strings with spaces or # included.
C22_RoundTrip ==
    (/\ Called("Save")
     /\ call.out = NoErr
     /\ SavePrefix = <<>>
     /\ IsFlat(SaveObj)
     /\ \A k \in 1..Len(SaveObj) : KeyFor(SaveObj[k]) \notin DOMAIN env0
     /\ Returned
     /\ ~scanErr) =>
        /\ ret = NoErr
        /\ \A k \in 1..Len(SaveObj) :
              /\ KeyFor(SaveObj[k]) \in DOMAIN env
              /\ env[KeyFor(SaveObj[k])] = StrOf(SaveObj[k])

----------------------------------------------------------------------------
(* Further claims about readParseStore, stated on Spec.                    *)

\* A goroutine has called cancel() for a parse error.
ParseCancelled ==
    /\ cancelled
    /\ \/ egErr # NoErr
       \/ \E t \in BagToSet(tasks) : t.pc = "return"

\* The goroutines that hold a line they have received.
Parsing(b) == {t \in BagToSet(b) : t.pc = "parse"}

\* C23: once a goroutine has cancelled the context for a parse error, no
\* step sends a further line (the line number stays) and no goroutine
\* takes up a line.
C23_CancelStopsDispatch ==
    [][ParseCancelled =>
          /\ number' = number
          /\ Parsing(tasks') \subseteq Parsing(tasks)]_vars

\* The scanner is still reading or sending, or a goroutine has not returned.
StillParsing ==
    \/ pc \in {"open", "scan", "send", "wait"}
    \/ \E t \in BagToSet(tasks) : t.pc \in {"range", "parse", "return"}

\* C24: as long as the scanner sends lines or a goroutine runs, the
\* environment is the one the call started in: only the apply loop, which
\* starts after every goroutine has returned, writes it.
C24_EnvWrittenByApplyOnly == StillParsing => env = env0

\* A declaration of an absent key is stored while a goroutine is parsing
\* the next line, and the environment is still the initial one.
C24_Witness ==
    /\ env0 = EmptyEnv
    /\ Len(file) = 2
    /\ file[1] = LineA
    /\ 0 \in DOMAIN outputs
    /\ \E t \in BagToSet(tasks) : t.pc = "parse" /\ t.line = 1
    /\ env = env0

----------------------------------------------------------------------------
(* The claim about the error returned, stated on FailSpec.                 *)

\* The parse errors the lines of the files give.
ParseErrs == {parseExpression(text).err : text \in FailLines} \ {NoErr}

\* The goroutines that have found a malformed line and not returned yet.
Failing == {t \in BagToSet(tasks) : t.pc = "return"}

\* One goroutine has failed with e, before any other: no error has been
\* returned and it is the only one to have found a malformed line.
FailedFirst(e) ==
    /\ egErr = NoErr
    /\ Failing = {Task("return", 0, e)}
    /\ CopiesIn(Task("return", 0, e), tasks) = 1

\* C25, as stated: the call that returns a parse error returns the one of
\* the goroutine that was the first in time to find a malformed line.
C25_FirstFailureReturned ==
    \A e \in ParseErrs :
        [](FailedFirst(e) => [](ret.kind \in ParseErrKinds => ret = e))

\* C25, amended: the error returned is the one of the goroutine that was
\* the first to return its error to the errgroup (which another goroutine
\* may have overtaken after finding its malformed line later): it is the
\* parse error of a malformed line of the file, a later failure never
\* replaces it, and the call that read the file to its end returns it and
\* nothing else, never a cancellation error.
C25_FirstReturnKept ==
    /\ [](egErr # NoErr =>
            /\ egErr \in ParseErrs
            /\ \E n \in 1..Len(file) : egErr = parseExpression(file[n]).err)
    /\ []((Returned /\ egErr # NoErr /\ ~scanErr) => ret = egErr)
    /\ [](ret # Canceled /\ egErr # Canceled)
    /\ [][/\ egErr # NoErr => egErr' = egErr
          /\ (egErr = NoErr /\ egErr' # NoErr) =>
                Task("return", 0, egErr') \in Failing]_vars

\* The call returned the error of its second line although the first line
\* is malformed too.
C25_Witness ==
    /\ Returned
    /\ file = <<LineBad, LineNoValue>>
    /\ ret = parseExpression(LineNoValue).err
    /\ ret # parseExpression(LineBad).err
    /\ \A t \in BagToSet(tasks) : t.pc = "exit"

----------------------------------------------------------------------------
(* The claim about the order of the apply phase, stated on OrderSpec.      *)

\* C26: with expand=false, the environment a successful call leaves after
\* applying the collected entries in the order they were collected in,
\* whatever it is, is the one applying the lines of the file in ascending
\* order gives, with update set or not, also when a key is declared on
\* several lines.
C26_OrderIrrelevant ==
    (~expand /\ Succeeded) => env = RefEnv(file, Len(file))

----------------------------------------------------------------------------
(* Further claims about readParseStore, stated on Spec: the numbering of   *)
(* the lines and the entries.                                              *)

\* The numbers of the lines the goroutines hold.
Held == {t.line : t \in Parsing(tasks)}

----------------------------------------------------------------------------
(* A further claim about parseExpression, stated on CallSpec.              *)

\* C28: when parseExpression accepts a value that opens with a quote, the
\* value is an opening quote, a closing quote and after it nothing but
\* white space and a comment, and what is returned is the text between the
\* two quotes: no text after the closing quote is cut and no quote that is
\* not escaped is left in the value.
C28_StripsTheQuotes ==
    (/\ Declares
     /\ ~Unquoted
     /\ call.out.err = NoErr) =>
        /\ WellQuoted(Declared, Declared[1])
        /\ call.out.value =
              Unescaped(SubSeq(Declared, 2, Closing(Declared, Declared[1]) - 1),
                        Declared[1])

\* The first declaration of key k at or after line n (1-based), 0 when
\* there is none.
RECURSIVE FirstDecl(_, _, _)
FirstDecl(lines, k, n) ==
    IF n > Len(lines) THEN 0
    ELSE IF IsDecl(lines[n]) /\ KeyOf(lines[n]) = k THEN n
    ELSE FirstDecl(lines, k, n + 1)

----------------------------------------------------------------------------
(* The claim about the loop of splitN, stated on LoopSpec.                 *)

\* C30: every call of splitN returns, whatever the string, the separator
\* (the empty one included) and the limit.
C30_SplitNTerminates == <>call.done

====
